---- MODULE Spec2Model ----
(***************************************************************************)
(* Model of the metrics aggregator of msclient: class Statistics of        *)
(* src/stats.py, together with the status pollers that read it             *)
(* (src/web_api.py, src/web_dashboard.py, src/launcher.py, src/gui.py).    *)
(*                                                                         *)
(* The Statistics instance is the record `stats`, one field per attribute. *)
(* Python dicts keep insertion order, and sorted() is stable, so a dict is *)
(* a sequence of <<key, value>> pairs in insertion order.  Time is counted *)
(* in ticks of 1/TicksPerSecond second, so that int(now) is a real floor;  *)
(* `clock` is the last value time.time() returned, and every call of       *)
(* time.time() returns that value or a later one.  self._lock is a         *)
(* threading.Lock: it is not reentrant.                                    *)
(***************************************************************************)
EXTENDS Integers, Sequences, FiniteSets, TLC

\* ------------------------------------------------------------------ bounds
TicksPerSecond == 2
MaxTime == 2
MaxCalls == 3
MaxSeqRequests == 2
MaxTopRequests == 4
MaxSeqOther == 1
MaxLimit == 2
MaxRateRequests == 5
MaxFrameCalls == 3
\* deque(maxlen=300) and deque(maxlen=60), scaled down so that a ring can fill
TimestampsMaxLen == 3
RpsMaxLen == 2

Threads == {1, 2}
Free == 0
NoTime == -1
NoCountry == "<None>"
IPs == {"10.0.0.1", "10.0.0.2"}
\* the identities record_request can be given: an address, or the empty string
Identities == IPs \cup {""}
Countries == {NoCountry, "", "US", "DE"}
ErrorTypes == {"general", "decode"}
PacketCounts == {1, 2}
Limits == 0..MaxLimit
\* the window of get_current_rps, in seconds
RpsWindow == 5

\* stats: the Statistics instance; clock: the last time read; lock: the holder of
\* self._lock, or Free.  Per thread: pc, where the thread is; meth, the method
\* it runs; arg, its arguments; now, the local `now` of record_request, and
\* loaded, the total_requests that its `+= 1` loaded; comp,
\* the dict-building method that called meth, if any; idx, the entry that
\* method is at; out, the <<key, value>> entries it has evaluated; ret, the last value
\* returned to the thread.  gens and hist are history variables: they record
\* what was called and which reset each value read had seen, and no action's
\* guard or effect on the other variables depends on them, except the bound
\* on the number of calls.
VARIABLES stats, clock, lock, pc, meth, arg, now, loaded, comp, idx, out, ret, gens, hist

vars == <<stats, clock, lock, pc, meth, arg, now, loaded, comp, idx, out, ret, gens, hist>>

\* ------------------------------------------------------------ dict helpers
Keys(d) == {d[i][1] : i \in DOMAIN d}

Get(d, k) == IF k \in Keys(d) THEN (CHOOSE i \in DOMAIN d : d[i][1] = k) ELSE 0

Value(d, k) == IF k \in Keys(d) THEN d[Get(d, k)][2] ELSE 0

\* defaultdict(int): d[k] += 1 inserts k at the end when it is new
DictIncr(d, k) ==
    IF k \in Keys(d)
    THEN [i \in DOMAIN d |-> IF d[i][1] = k THEN <<k, d[i][2] + 1>> ELSE d[i]]
    ELSE Append(d, <<k, 1>>)

\* d[k] = v
DictSet(d, k, v) ==
    IF k \in Keys(d)
    THEN [i \in DOMAIN d |-> IF d[i][1] = k THEN <<k, v>> ELSE d[i]]
    ELSE Append(d, <<k, v>>)

\* a deque without maxlen
DequeAppend_Unbounded(q, x, n) == Append(q, x)

\* deque(maxlen=n).append(x)
DequeAppend(q, x, n) ==
    IF Len(q) >= n THEN Append(Tail(q), x) ELSE Append(q, x)

\* int(t) of a time t >= 0
IntOf(t) == t \div TicksPerSecond

\* a sort that is not stable: x goes before the pairs of its own count
InsertDesc_Unstable(acc, x) ==
    LET k == Cardinality({j \in DOMAIN acc : acc[j][2] > x[2]})
    IN SubSeq(acc, 1, k) \o <<x>> \o SubSeq(acc, k + 1, Len(acc))

\* one step of sorted(..., key=count, reverse=True): x goes after every pair
\* whose count is >= its own (the sort is stable)
InsertDesc(acc, x) ==
    LET k == Cardinality({j \in DOMAIN acc : acc[j][2] >= x[2]})
    IN SubSeq(acc, 1, k) \o <<x>> \o SubSeq(acc, k + 1, Len(acc))

RECURSIVE SortedDesc(_)
SortedDesc(d) ==
    IF d = <<>> THEN <<>>
    ELSE InsertDesc(SortedDesc(SubSeq(d, 1, Len(d) - 1)), d[Len(d)])

\* s[:limit]
Slice(s, limit) ==
    IF limit >= 0
    THEN SubSeq(s, 1, IF limit < Len(s) THEN limit ELSE Len(s))
    ELSE SubSeq(s, 1, IF Len(s) + limit > 0 THEN Len(s) + limit ELSE 0)

\* ------------------------------------------------------------ Statistics
\* Statistics.__init__; its three readings of time.time() are one reading t
NewStatistics(t) ==
    [ total_requests |-> 0,
      total_packets_sent |-> 0,
      total_errors |-> 0,
      unique_ips |-> {},
      ip_first_seen |-> <<>>,
      ip_request_count |-> <<>>,
      country_counts |-> <<>>,
      start_time |-> t,
      last_request_time |-> NoTime,
      request_timestamps |-> <<>>,
      requests_per_second |-> <<>>,
      current_second |-> IntOf(t),
      current_second_count |-> 0,
      errors_by_type |-> <<>>,
      request_history |-> <<>>,
      history_update_time |-> t ]

\* record_request, lines 57-59: the counters.  `self.total_requests += 1` loads
\* the attribute, adds and stores: `old` is the value it loaded
RR_Counters(s, old, t) ==
    [s EXCEPT !.total_requests = old + 1, !.last_request_time = t]

\* the membership test made on the per-IP counts, after the count was inserted
RR_TrackIp_TestAfterCount(s, ip, t) ==
    LET s1 == [s EXCEPT !.ip_request_count = DictIncr(@, ip)]
    IN IF ip \notin Keys(s1.ip_request_count)
       THEN [s1 EXCEPT !.unique_ips = @ \cup {ip},
                       !.ip_first_seen = DictSet(@, ip, t)]
       ELSE s1

\* an identity tested for truth, as the category is: `if ip and ip not in ...`
RR_TrackIp_SkipEmpty(s, ip, t) ==
    IF ip = "" THEN s
    ELSE LET s1 == IF ip \notin s.unique_ips
                   THEN [s EXCEPT !.unique_ips = @ \cup {ip},
                                  !.ip_first_seen = DictSet(@, ip, t)]
                   ELSE s
         IN [s1 EXCEPT !.ip_request_count = DictIncr(@, ip)]

\* record_request, lines 61-66: unique IPs and the per-IP count
RR_TrackIp(s, ip, t) ==
    LET s1 == IF ip \notin s.unique_ips
              THEN [s EXCEPT !.unique_ips = @ \cup {ip},
                             !.ip_first_seen = DictSet(@, ip, t)]
              ELSE s
    IN [s1 EXCEPT !.ip_request_count = DictIncr(@, ip)]

\* the truth value of `country` in `if country:`: None and "" are both false
Truthy(country) == country # NoCountry /\ country # ""

\* record_request, lines 68-70
RR_Country(s, country) ==
    IF Truthy(country)
    THEN [s EXCEPT !.country_counts = DictIncr(@, country)]
    ELSE s

\* record_request, lines 72-73
RR_Timestamps(s, t) ==
    [s EXCEPT !.request_timestamps = DequeAppend(@, t, TimestampsMaxLen)]

\* the buckets without the test of line 78: an empty bucket is pushed too
RR_Buckets_PushEmpty(s, t) ==
    LET current_second == IntOf(t)
    IN IF current_second # s.current_second
       THEN [s EXCEPT
               !.requests_per_second = DequeAppend(@, s.current_second_count, RpsMaxLen),
               !.current_second = current_second,
               !.current_second_count = 1]
       ELSE [s EXCEPT !.current_second_count = @ + 1]

\* the buckets with line 81 setting the running count to 0
RR_Buckets_RestartAtZero(s, t) ==
    LET current_second == IntOf(t)
    IN IF current_second # s.current_second
       THEN [s EXCEPT
               !.requests_per_second =
                   IF s.current_second_count > 0
                   THEN DequeAppend(@, s.current_second_count, RpsMaxLen)
                   ELSE @,
               !.current_second = current_second,
               !.current_second_count = 0]
       ELSE [s EXCEPT !.current_second_count = @ + 1]

\* record_request, lines 75-83: the per-second buckets
RR_Buckets(s, t) ==
    LET current_second == IntOf(t)
    IN IF current_second # s.current_second
       THEN [s EXCEPT
               !.requests_per_second =
                   IF s.current_second_count > 0
                   THEN DequeAppend(@, s.current_second_count, RpsMaxLen)
                   ELSE @,
               !.current_second = current_second,
               !.current_second_count = 1]
       ELSE [s EXCEPT !.current_second_count = @ + 1]

\* record_request, lines 61-83: everything after the counters
RR_Rest(s, ip, country, t) ==
    RR_Buckets(RR_Timestamps(RR_Country(RR_TrackIp(s, ip, t), country), t), t)

\* the whole of record_request(ip, country) at time t
record_request(s, ip, country, t) ==
    RR_Rest(RR_Counters(s, s.total_requests, t), ip, country, t)

record_packets_sent(s, count) ==
    [s EXCEPT !.total_packets_sent = @ + count]

\* an error counted as a request too
record_error_CountsRequest(s, error_type) ==
    [s EXCEPT !.total_errors = @ + 1, !.total_requests = @ + 1,
              !.errors_by_type = DictIncr(@, error_type)]

record_error(s, error_type) ==
    [s EXCEPT !.total_errors = @ + 1,
              !.errors_by_type = DictIncr(@, error_type)]

\* reset, lines 192-194
Reset_Counters(s) ==
    [s EXCEPT !.total_requests = 0, !.total_packets_sent = 0, !.total_errors = 0]

\* reset, lines 195-198
Reset_Tables(s) ==
    [s EXCEPT !.unique_ips = {}, !.ip_first_seen = <<>>,
              !.ip_request_count = <<>>, !.country_counts = <<>>]

\* reset without line 205
Reset_Rest_KeepErrors(s, t) ==
    [s EXCEPT !.start_time = t, !.last_request_time = NoTime,
              !.request_timestamps = <<>>, !.requests_per_second = <<>>,
              !.current_second = IntOf(t), !.current_second_count = 0,
              !.request_history = <<>>, !.history_update_time = t]

\* reset, lines 199-207; its three readings of time.time() are one reading t
Reset_Rest(s, t) ==
    [s EXCEPT !.start_time = t, !.last_request_time = NoTime,
              !.request_timestamps = <<>>, !.requests_per_second = <<>>,
              !.current_second = IntOf(t), !.current_second_count = 0,
              !.errors_by_type = <<>>, !.request_history = <<>>,
              !.history_update_time = t]

\* the whole of reset() at time t
reset(s, t) == Reset_Rest(Reset_Tables(Reset_Counters(s)), t)

\* ------------------------------------------------------------- accessors
\* a float that is a quotient is the pair <<numerator, denominator>>
Zero == <<0, 1>>

\* time.time() - self.start_time, in ticks
get_uptime(s, t) == t - s.start_time

\* f"{hours}h {minutes}m {seconds}s" and its two shorter forms
get_uptime_formatted(s, t) ==
    LET uptime == get_uptime(s, t)
        hours == uptime \div (3600 * TicksPerSecond)
        minutes == (uptime % (3600 * TicksPerSecond)) \div (60 * TicksPerSecond)
        seconds == (uptime % (60 * TicksPerSecond)) \div TicksPerSecond
    IN IF hours > 0 THEN <<hours, "h", minutes, "m", seconds, "s">>
       ELSE IF minutes > 0 THEN <<minutes, "m", seconds, "s">>
       ELSE <<seconds, "s">>

get_current_rps(s, t) ==
    LET recent == {i \in DOMAIN s.request_timestamps :
                      t - s.request_timestamps[i] <= RpsWindow * TicksPerSecond}
    IN IF Cardinality(recent) > 0 THEN <<Cardinality(recent), RpsWindow>> ELSE Zero

\* get_average_rps without the test of line 128
get_average_rps_NoGuard(s, t) ==
    <<s.total_requests * TicksPerSecond, get_uptime(s, t)>>

get_average_rps(s, t) ==
    LET uptime == get_uptime(s, t)
    IN IF uptime > 0 THEN <<s.total_requests * TicksPerSecond, uptime>> ELSE Zero

get_unique_ip_count(s) == Cardinality(s.unique_ips)

get_top_countries(s, limit) == Slice(SortedDesc(s.country_counts), limit)

get_top_ips(s, limit) == Slice(SortedDesc(s.ip_request_count), limit)

get_request_rate_history(s) == s.requests_per_second

\* strftime("%Y-%m-%d %H:%M:%S") keeps the whole second of the timestamp
get_last_request_time_formatted(s) ==
    IF s.last_request_time = NoTime THEN <<"Never">>
    ELSE <<"at", IntOf(s.last_request_time)>>

\* round(x, 2) of a quotient, in hundredths
Round2(q) == (200 * q[1] + q[2]) \div (2 * q[2])

\* ------------------------------------------------- methods and their callers
Mutators == {"record_request", "record_packets_sent", "record_error", "reset"}

\* get_unique_ip_count reading without the lock, as get_uptime does
LockedAccessors_UniqueUnlocked ==
    {"get_current_rps", "get_average_rps",
     "get_top_countries", "get_top_ips", "get_request_rate_history",
     "get_last_request_time_formatted"}

\* the accessors whose body is `with self._lock:`
LockedAccessors ==
    {"get_current_rps", "get_average_rps", "get_unique_ip_count",
     "get_top_countries", "get_top_ips", "get_request_rate_history",
     "get_last_request_time_formatted"}

\* the read accessors; get_uptime and get_uptime_formatted take no lock
Accessors ==
    {"get_current_rps", "get_average_rps", "get_unique_ip_count",
     "get_top_countries", "get_top_ips", "get_request_rate_history",
     "get_last_request_time_formatted", "get_uptime", "get_uptime_formatted"}

\* a method that reads the aggregator value by value: get_summary under the
\* lock, the status poller _update_stats of gui.py without it.  The other
\* pollers (MasterServerAPI.get_statistics, WebDashboard.api_stats and
\* handle_stats of launcher.py) start with the same three reads
\* (total_requests, get_unique_ip_count(), get_current_rps()) in this order.
\* handle_stats of launcher.py is the third: it builds the payload of
\* /api/stats.
Composites == {"get_summary", "_update_stats", "handle_stats"}

TakesLock(m) == m \in Mutators \cup LockedAccessors \cup {"get_summary"}

NoArg == [limit |-> 10]

\* what accessor m returns in state s at time t
AccessorValue(m, a, s, t) ==
    CASE m = "get_current_rps" -> get_current_rps(s, t)
      [] m = "get_average_rps" -> get_average_rps(s, t)
      [] m = "get_unique_ip_count" -> get_unique_ip_count(s)
      [] m = "get_top_countries" -> get_top_countries(s, a.limit)
      [] m = "get_top_ips" -> get_top_ips(s, a.limit)
      [] m = "get_request_rate_history" -> get_request_rate_history(s)
      [] m = "get_last_request_time_formatted" -> get_last_request_time_formatted(s)
      [] m = "get_uptime" -> get_uptime(s, t)
      [] m = "get_uptime_formatted" -> get_uptime_formatted(s, t)

\* a ranking query that looks its table up with a key, which makes a
\* defaultdict insert the key
AccessorState_IndexesTable(m, a, s, t) ==
    IF m \in {"get_top_countries", "get_top_ips"} /\ "" \notin Keys(s.country_counts)
    THEN [s EXCEPT !.country_counts = Append(@, <<"", 0>>)]
    ELSE s

\* the state accessor m leaves when called in state s: lines 96-168 assign no
\* attribute, and read the tables with items(), len() and list(), never by
\* key, so that no defaultdict inserts an entry
AccessorState(m, a, s, t) == s

\* the entries of the dict of get_summary, in evaluation order: a field read
\* (or an expression over fields), or a call of an accessor
SummaryEntries ==
    << [key |-> "total_requests", call |-> "field"],
       [key |-> "total_packets_sent", call |-> "field"],
       [key |-> "total_errors", call |-> "field"],
       [key |-> "unique_ips", call |-> "field"],
       [key |-> "unique_countries", call |-> "field"],
       [key |-> "uptime", call |-> "get_uptime"],
       [key |-> "uptime_formatted", call |-> "get_uptime_formatted"],
       [key |-> "current_rps", call |-> "get_current_rps"],
       [key |-> "average_rps", call |-> "get_average_rps"],
       [key |-> "last_request", call |-> "get_last_request_time_formatted"],
       [key |-> "top_countries", call |-> "get_top_countries"],
       [key |-> "top_ips", call |-> "get_top_ips"],
       [key |-> "errors_by_type", call |-> "field"] >>

\* the values _update_stats reads for its stat cards, in order
UpdateStatsEntries ==
    << [key |-> "card_requests", call |-> "field"],
       [key |-> "card_unique_ips", call |-> "get_unique_ip_count"],
       [key |-> "card_rps", call |-> "get_current_rps"],
       [key |-> "card_uptime", call |-> "get_uptime_formatted"] >>

\* the entries of the payload of handle_stats (launcher.py lines 97-104), in
\* order
HandleStatsEntries ==
    << [key |-> "totalRequests", call |-> "field"],
       [key |-> "uniqueIPs", call |-> "get_unique_ip_count"],
       [key |-> "currentRPS", call |-> "get_current_rps"],
       [key |-> "uptimeFormatted", call |-> "get_uptime_formatted"],
       [key |-> "requestRate", call |-> "get_request_rate_history"],
       [key |-> "topCountries", call |-> "get_top_countries"] >>

Entries(c) ==
    CASE c = "get_summary" -> SummaryEntries
      [] c = "_update_stats" -> UpdateStatsEntries
      [] c = "handle_stats" -> HandleStatsEntries

\* the value of an entry that reads fields directly
FieldValue(key, s) ==
    CASE key \in {"total_requests", "card_requests", "totalRequests"} -> s.total_requests
      [] key = "total_packets_sent" -> s.total_packets_sent
      [] key = "total_errors" -> s.total_errors
      [] key = "unique_ips" -> Cardinality(s.unique_ips)
      [] key = "unique_countries" -> Len(s.country_counts)
      [] key = "errors_by_type" -> s.errors_by_type

\* what the caller makes of the value an accessor returned: _update_stats
\* formats the rate with two decimals (f"{...:.2f}"); handle_stats rounds it
\* to two decimals and turns each pair of the ranking into a dict
EntryOf(c, key, v) ==
    CASE c = "_update_stats" /\ key = "card_rps" -> Round2(v)
      [] c = "handle_stats" /\ key = "currentRPS" -> Round2(v)
      [] c = "handle_stats" /\ key = "topCountries" ->
            [i \in DOMAIN v |-> [country |-> v[i][1], count |-> v[i][2]]]
      [] OTHER -> v

\* ---------------------------------------------------------------- state
NoRet == [m |-> "none", v |-> 0]

NewHist ==
    [ calls |-> 0,          \* calls issued
      rr_calls |-> 0,       \* record_request calls issued
      rr_ips |-> {},        \* the identities they were issued with
      applied |-> <<>>,     \* identities in the order total_requests counted them
      resets |-> 0,         \* reset calls issued
      resets_begun |-> 0,   \* resets that have cleared the counters
      resets_done |-> 0,    \* resets that have returned
      rr_at_reset |-> 0,    \* record_request calls in flight at the last reset call
      rr_after |-> 0,       \* those, and the ones issued after it
      other_after |-> 0,    \* the same for record_packets_sent and record_error
      labels |-> <<>>,      \* TopSpec: the category of each request since the last reset
      times |-> <<>> ]      \* RateSpec: the time of each request since the last reset

Init ==
    /\ clock = 0
    /\ stats = NewStatistics(clock)
    /\ lock = Free
    /\ pc = [t \in Threads |-> "idle"]
    /\ meth = [t \in Threads |-> "none"]
    /\ arg = [t \in Threads |-> NoArg]
    /\ now = [t \in Threads |-> NoTime]
    /\ loaded = [t \in Threads |-> 0]
    /\ comp = [t \in Threads |-> "none"]
    /\ idx = [t \in Threads |-> 1]
    /\ out = [t \in Threads |-> <<>>]
    /\ ret = [t \in Threads |-> NoRet]
    /\ gens = [t \in Threads |-> <<>>]
    /\ hist = NewHist

\* the arguments method m is called with by the concurrent threads
Args(m) ==
    CASE m = "record_request" -> [ip : IPs, country : {"US"}]
      [] m = "record_packets_sent" -> {[count |-> 1]}
      [] m = "record_error" -> {[error_type |-> "general"]}
      [] OTHER -> {NoArg}

\* export_to_dict is `return self.get_summary()`
Target(m) == IF m = "export_to_dict" THEN "get_summary" ELSE m

\* what the concurrent threads call: the recording methods and reset, get_summary
\* (directly and through export_to_dict) and the poller
Callable == Mutators \cup {"get_summary", "_update_stats", "export_to_dict"}

InFlight(ms) == Cardinality({t \in Threads : pc[t] # "idle" /\ meth[t] \in ms})

\* the history after a call of m with arguments a
HistCall(m, a) ==
    LET h == [hist EXCEPT !.calls = @ + 1]
    IN CASE m = "record_request" ->
              [h EXCEPT !.rr_calls = @ + 1, !.rr_ips = @ \cup {a.ip}, !.rr_after = @ + 1]
         [] m \in {"record_packets_sent", "record_error"} ->
              [h EXCEPT !.other_after = @ + 1]
         [] m = "reset" ->
              [h EXCEPT !.resets = @ + 1,
                        !.rr_at_reset = InFlight({"record_request"}),
                        !.rr_after = InFlight({"record_request"}),
                        !.other_after = InFlight({"record_packets_sent", "record_error"})]
         [] OTHER -> h

\* which reset the value of an entry or accessor has seen: reset clears the
\* three counters first (lines 192-194) and everything else after
GenOf(key) ==
    IF key \in {"total_requests", "card_requests", "totalRequests",
                "total_packets_sent", "total_errors"}
    THEN hist.resets_begun ELSE hist.resets_done

\* time.time(): the values a call made now can return
TimeNow == clock..MaxTime

\* the accessors that call time.time()
ReadsClock(m) ==
    m \in {"get_current_rps", "get_average_rps", "get_uptime", "get_uptime_formatted"}

\* ---------------------------------------------------------------- steps
\* thread t calls method m with arguments a
Call(t, m, a) ==
    /\ pc[t] = "idle"
    /\ hist.calls < MaxCalls
    /\ meth' = [meth EXCEPT ![t] = Target(m)]
    /\ arg' = [arg EXCEPT ![t] = a]
    /\ pc' = [pc EXCEPT ![t] = IF TakesLock(Target(m)) THEN "lock"
                               ELSE IF m \in Composites THEN "entries" ELSE "body"]
    /\ comp' = [comp EXCEPT ![t] = "none"]
    /\ idx' = [idx EXCEPT ![t] = 1]
    /\ out' = [out EXCEPT ![t] = <<>>]
    /\ gens' = [gens EXCEPT ![t] = <<>>]
    /\ ret' = [ret EXCEPT ![t] = NoRet]
    /\ hist' = HistCall(m, a)
    /\ UNCHANGED <<stats, clock, lock, now, loaded>>

\* a lock that excludes nobody
CanAcquire_NoExclusion(t) == TRUE

\* `with self._lock:` - threading.Lock.acquire blocks while the lock is held,
\* also when the holder is the calling thread
CanAcquire(t) == lock = Free

Acquire(t) ==
    /\ pc[t] = "lock"
    /\ CanAcquire(t)
    /\ lock' = t
    /\ pc' = [pc EXCEPT ![t] = IF meth[t] \in Composites THEN "entries" ELSE "body"]
    /\ UNCHANGED <<stats, clock, meth, arg, now, loaded, comp, idx, out, ret, gens, hist>>

\* a top-level method returns to the thread
Return(t, v) ==
    /\ pc' = [pc EXCEPT ![t] = "idle"]
    /\ ret' = [ret EXCEPT ![t] = [m |-> meth[t], v |-> v]]
    /\ meth' = [meth EXCEPT ![t] = "none"]

\* record_request, line 55, and the load of total_requests of line 58
RecordRequestNow(t) ==
    /\ pc[t] = "body" /\ meth[t] = "record_request"
    /\ \E tm \in TimeNow :
          /\ clock' = tm
          /\ now' = [now EXCEPT ![t] = tm]
    /\ loaded' = [loaded EXCEPT ![t] = stats.total_requests]
    /\ pc' = [pc EXCEPT ![t] = "rr_store"]
    /\ UNCHANGED <<stats, lock, meth, arg, comp, idx, out, ret, gens, hist>>

\* record_request, the store of line 58, and line 59
RecordRequestCounters(t) ==
    /\ pc[t] = "rr_store"
    /\ stats' = RR_Counters(stats, loaded[t], now[t])
    /\ pc' = [pc EXCEPT ![t] = "rr_rest"]
    /\ hist' = [hist EXCEPT !.applied = Append(@, arg[t].ip)]
    /\ UNCHANGED <<clock, lock, meth, arg, now, loaded, comp, idx, out, ret, gens>>

\* record_request, lines 61-83, and the release of the lock
RecordRequestRest(t) ==
    /\ pc[t] = "rr_rest"
    /\ stats' = RR_Rest(stats, arg[t].ip, arg[t].country, now[t])
    /\ lock' = Free
    /\ Return(t, 0)
    /\ UNCHANGED <<clock, arg, now, loaded, comp, idx, out, gens, hist>>

RecordPacketsSent(t) ==
    /\ pc[t] = "body" /\ meth[t] = "record_packets_sent"
    /\ stats' = record_packets_sent(stats, arg[t].count)
    /\ lock' = Free
    /\ Return(t, 0)
    /\ UNCHANGED <<clock, arg, now, loaded, comp, idx, out, gens, hist>>

RecordError(t) ==
    /\ pc[t] = "body" /\ meth[t] = "record_error"
    /\ stats' = record_error(stats, arg[t].error_type)
    /\ lock' = Free
    /\ Return(t, 0)
    /\ UNCHANGED <<clock, arg, now, loaded, comp, idx, out, gens, hist>>

\* reset, lines 192-194
ResetCounters(t) ==
    /\ pc[t] = "body" /\ meth[t] = "reset"
    /\ stats' = Reset_Counters(stats)
    /\ pc' = [pc EXCEPT ![t] = "reset_tables"]
    /\ hist' = [hist EXCEPT !.resets_begun = @ + 1, !.applied = <<>>]
    /\ UNCHANGED <<clock, lock, meth, arg, now, loaded, comp, idx, out, ret, gens>>

\* reset, lines 195-198
ResetTables(t) ==
    /\ pc[t] = "reset_tables"
    /\ stats' = Reset_Tables(stats)
    /\ pc' = [pc EXCEPT ![t] = "reset_rest"]
    /\ UNCHANGED <<clock, lock, meth, arg, now, loaded, comp, idx, out, ret, gens, hist>>

\* reset, lines 199-207, and the release of the lock
ResetRest(t) ==
    /\ pc[t] = "reset_rest"
    /\ \E tm \in TimeNow :
          /\ clock' = tm
          /\ stats' = Reset_Rest(stats, tm)
    /\ lock' = Free
    /\ Return(t, 0)
    /\ hist' = [hist EXCEPT !.resets_done = @ + 1]
    /\ UNCHANGED <<arg, now, loaded, comp, idx, out, gens>>

\* get_uptime, line 98: `time.time() - self.start_time` calls time.time()
\* first and loads self.start_time after it, and holds no lock in between
\* (get_uptime_formatted, line 102, starts with this call)
UptimeAccessors == {"get_uptime", "get_uptime_formatted"}

UptimeNow(t) ==
    /\ pc[t] = "body" /\ meth[t] \in UptimeAccessors
    /\ \E tm \in TimeNow :
          /\ clock' = tm
          /\ now' = [now EXCEPT ![t] = tm]
    /\ pc' = [pc EXCEPT ![t] = "uptime_load"]
    /\ UNCHANGED <<stats, lock, meth, arg, loaded, comp, idx, out, ret, gens, hist>>

\* the body of an accessor (of get_uptime: the load of start_time and the
\* subtraction), the release of the lock if it took it, and its
\* return: to the thread, or to the dict-building method that called it
AccessorBody(t) ==
    /\ \/ pc[t] = "body" /\ meth[t] \in Accessors \ UptimeAccessors
       \/ pc[t] = "uptime_load"
    /\ \E tm \in IF pc[t] = "uptime_load" THEN {now[t]}
                 ELSE IF ReadsClock(meth[t]) THEN TimeNow ELSE {clock} :
       LET v == AccessorValue(meth[t], arg[t], stats, tm)
       IN /\ clock' = IF pc[t] = "uptime_load" THEN clock ELSE tm
          /\ stats' = AccessorState(meth[t], arg[t], stats, tm)
          /\ IF comp[t] = "none"
             THEN /\ Return(t, v)
                  /\ UNCHANGED <<comp, idx, out, gens>>
             ELSE LET key == Entries(comp[t])[idx[t]].key
                  IN /\ out' = [out EXCEPT ![t] = Append(@, <<key, EntryOf(comp[t], key, v)>>)]
                     /\ gens' = [gens EXCEPT ![t] = Append(@, GenOf(key))]
                     /\ idx' = [idx EXCEPT ![t] = @ + 1]
                     /\ meth' = [meth EXCEPT ![t] = comp[t]]
                     /\ comp' = [comp EXCEPT ![t] = "none"]
                     /\ pc' = [pc EXCEPT ![t] = "entries"]
                     /\ UNCHANGED ret
    /\ lock' = IF meth[t] \in LockedAccessors THEN Free ELSE lock
    /\ UNCHANGED <<arg, now, loaded, hist>>

\* get_summary (lines 173-187) or _update_stats (gui.py lines 393-400)
\* evaluates its next entry, or returns when all are evaluated: get_summary
\* returns the dict, _update_stats has set its stat cards (out) and returns None
CompositeEntry(t) ==
    /\ pc[t] = "entries" /\ meth[t] \in Composites
    /\ IF idx[t] > Len(Entries(meth[t]))
       THEN /\ Return(t, IF meth[t] = "get_summary" THEN out[t] ELSE 0)
            /\ lock' = IF meth[t] = "get_summary" THEN Free ELSE lock
            /\ UNCHANGED <<comp, idx, out, gens, arg>>
       ELSE LET e == Entries(meth[t])[idx[t]]
            IN IF e.call = "field"
               THEN /\ out' = [out EXCEPT ![t] = Append(@, <<e.key, FieldValue(e.key, stats)>>)]
                    /\ gens' = [gens EXCEPT ![t] = Append(@, GenOf(e.key))]
                    /\ idx' = [idx EXCEPT ![t] = @ + 1]
                    /\ UNCHANGED <<pc, meth, comp, ret, lock, arg>>
               ELSE /\ meth' = [meth EXCEPT ![t] = e.call]
                    /\ comp' = [comp EXCEPT ![t] = meth[t]]
                    /\ arg' = [arg EXCEPT ![t] = NoArg]
                    /\ pc' = [pc EXCEPT ![t] = IF e.call \in LockedAccessors
                                               THEN "lock" ELSE "body"]
                    /\ UNCHANGED <<idx, out, gens, ret, lock>>
    /\ UNCHANGED <<stats, clock, now, loaded, hist>>

\* what a thread does once it has called a method
Step(t) ==
    \/ RecordRequestNow(t)
    \/ RecordRequestCounters(t)
    \/ RecordRequestRest(t)
    \/ RecordPacketsSent(t)
    \/ RecordError(t)
    \/ ResetCounters(t)
    \/ ResetTables(t)
    \/ ResetRest(t)
    \/ UptimeNow(t)
    \/ AccessorBody(t)
    \/ CompositeEntry(t)

Next ==
    \/ \E t \in Threads : \E m \in Callable : \E a \in Args(m) : Call(t, m, a)
    \/ \E t \in Threads : Acquire(t)
    \/ \E t \in Threads : Step(t)

Spec == Init /\ [][Next]_vars

\* ------------------------------------------------- one thread, whole calls
\* The same methods called one after the other by a single thread, each call
\* one step.  `times` is what time.time() can return and h the history after
\* the call.  SeqSpec is the recording methods and reset, with every argument
\* they take.
SeqRecordRequest(ip, country, times, h) ==
    /\ \E tm \in times :
          /\ clock' = tm
          /\ stats' = record_request(stats, ip, country, tm)
    /\ ret' = [ret EXCEPT ![1] = [m |-> "record_request", v |-> 0]]
    /\ hist' = h
    /\ UNCHANGED <<lock, pc, meth, arg, now, loaded, comp, idx, out, gens>>

SeqRecordPacketsSent(count) ==
    /\ hist.calls < MaxSeqOther
    /\ stats' = record_packets_sent(stats, count)
    /\ ret' = [ret EXCEPT ![1] = [m |-> "record_packets_sent", v |-> 0]]
    /\ hist' = [hist EXCEPT !.calls = @ + 1]
    /\ UNCHANGED <<clock, lock, pc, meth, arg, now, loaded, comp, idx, out, gens>>

SeqRecordError(error_type) ==
    /\ hist.calls < MaxSeqOther
    /\ stats' = record_error(stats, error_type)
    /\ ret' = [ret EXCEPT ![1] = [m |-> "record_error", v |-> 0]]
    /\ hist' = [hist EXCEPT !.calls = @ + 1]
    /\ UNCHANGED <<clock, lock, pc, meth, arg, now, loaded, comp, idx, out, gens>>

SeqReset(times) ==
    /\ hist.resets < MaxSeqOther
    /\ \E tm \in times :
          /\ clock' = tm
          /\ stats' = reset(stats, tm)
    /\ ret' = [ret EXCEPT ![1] = [m |-> "reset", v |-> 0]]
    /\ hist' = [hist EXCEPT !.resets = @ + 1, !.resets_begun = @ + 1,
                            !.resets_done = @ + 1, !.labels = <<>>,
                            !.applied = <<>>, !.times = <<>>]
    /\ UNCHANGED <<lock, pc, meth, arg, now, loaded, comp, idx, out, gens>>

\* the arguments of an accessor
SeqArgs(m) ==
    IF m \in {"get_top_countries", "get_top_ips"} THEN [limit : Limits] ELSE {NoArg}

SeqAccessor(m, a) ==
    /\ \E tm \in IF ReadsClock(m) THEN TimeNow ELSE {clock} :
          /\ clock' = tm
          /\ ret' = [ret EXCEPT ![1] = [m |-> m, a |-> a, v |-> AccessorValue(m, a, stats, tm)]]
          /\ stats' = AccessorState(m, a, stats, tm)
    /\ UNCHANGED <<lock, pc, meth, arg, now, loaded, comp, idx, out, gens, hist>>

SeqNext ==
    \/ \E ip \in Identities : \E country \in Countries :
          /\ hist.rr_calls < MaxSeqRequests
          /\ SeqRecordRequest(ip, country, TimeNow,
                              [hist EXCEPT !.rr_calls = @ + 1, !.rr_ips = @ \cup {ip},
                                           !.applied = Append(@, ip)])
    \/ \E count \in PacketCounts : SeqRecordPacketsSent(count)
    \/ \E error_type \in ErrorTypes : SeqRecordError(error_type)
    \/ SeqReset(TimeNow)

SeqSpec == Init /\ [][SeqNext]_vars

\* ------------------------------------------------------------- rankings
\* Requests of one client with every category, resets and the ranking of the
\* categories, one call a step, all at one time; hist.labels keeps the
\* categories recorded.
TopNext ==
    \/ \E country \in Countries :
          /\ hist.rr_calls < MaxTopRequests
          /\ SeqRecordRequest("10.0.0.1", country, {clock},
                              [hist EXCEPT !.rr_calls = @ + 1,
                                           !.labels = Append(@, country)])
    \/ SeqReset({clock})
    \/ \E a \in SeqArgs("get_top_countries") : SeqAccessor("get_top_countries", a)

TopSpec == Init /\ [][TopNext]_vars

\* Requests of every client without a category, at any time, resets and the
\* ranking of the clients; hist.applied keeps the clients of the requests since
\* the last reset.
TopIpsNext ==
    \/ \E ip \in IPs : \E tm \in TimeNow :
          /\ hist.rr_calls < MaxTopRequests
          /\ SeqRecordRequest(ip, NoCountry, {tm},
                              [hist EXCEPT !.rr_calls = @ + 1,
                                           !.applied = Append(@, ip)])
    \/ SeqReset(TimeNow)
    \/ \E a \in SeqArgs("get_top_ips") : SeqAccessor("get_top_ips", a)

TopIpsSpec == Init /\ [][TopIpsNext]_vars

\* ------------------------------------------------------------- every call
\* Every method called by a single caller, one call a step: requests of every
\* client, packets and errors (ret keeps their argument), MaxFrameCalls of
\* them in all, resets and all the read accessors.
FrameRecordPacketsSent(count) ==
    /\ hist.calls < MaxFrameCalls
    /\ stats' = record_packets_sent(stats, count)
    /\ ret' = [ret EXCEPT ![1] = [m |-> "record_packets_sent",
                                  a |-> [count |-> count], v |-> 0]]
    /\ hist' = [hist EXCEPT !.calls = @ + 1]
    /\ UNCHANGED <<clock, lock, pc, meth, arg, now, loaded, comp, idx, out, gens>>

FrameRecordError(error_type) ==
    /\ hist.calls < MaxFrameCalls
    /\ stats' = record_error(stats, error_type)
    /\ ret' = [ret EXCEPT ![1] = [m |-> "record_error",
                                  a |-> [error_type |-> error_type], v |-> 0]]
    /\ hist' = [hist EXCEPT !.calls = @ + 1]
    /\ UNCHANGED <<clock, lock, pc, meth, arg, now, loaded, comp, idx, out, gens>>

FrameNext ==
    \/ \E ip \in IPs : \E tm \in TimeNow :
          /\ hist.calls < MaxFrameCalls
          /\ SeqRecordRequest(ip, "US", {tm},
                              [hist EXCEPT !.calls = @ + 1, !.rr_calls = @ + 1,
                                           !.applied = Append(@, ip)])
    \/ \E count \in PacketCounts : FrameRecordPacketsSent(count)
    \/ \E error_type \in ErrorTypes : FrameRecordError(error_type)
    \/ SeqReset(TimeNow)
    \/ \E m \in Accessors : \E a \in SeqArgs(m) : SeqAccessor(m, a)

FrameSpec == Init /\ [][FrameNext]_vars

\* ------------------------------------------------------------------ rates
\* Requests of one client, resets and the rate accessors, one call a step.
\* time.time() returns the time of the last call, or a time later by one tick,
\* by two seconds or by the window of get_current_rps, up to MaxRateTime: long
\* enough for the bucket ring to fill and for a timestamp to leave the window.
\* An accessor is called right after the last call, or when every timestamp
\* has left the window.
\* hist.times keeps the time of each request since the last reset.
MaxRateTime == 2 * TicksPerSecond * (RpsMaxLen + 2)

RateTimes ==
    {clock + d : d \in {0, 1, 2 * TicksPerSecond, RpsWindow * TicksPerSecond}}
        \cap 0..MaxRateTime

RateAccessorTimes ==
    {clock, clock + RpsWindow * TicksPerSecond + 1} \cap 0..MaxRateTime

RateAccessors == {"get_current_rps", "get_average_rps", "get_request_rate_history"}

RateAccessor(m) ==
    /\ \E tm \in IF ReadsClock(m) THEN RateAccessorTimes ELSE {clock} :
          /\ clock' = tm
          /\ ret' = [ret EXCEPT ![1] = [m |-> m, a |-> NoArg,
                                        v |-> AccessorValue(m, NoArg, stats, tm)]]
          /\ stats' = AccessorState(m, NoArg, stats, tm)
    /\ UNCHANGED <<lock, pc, meth, arg, now, loaded, comp, idx, out, gens, hist>>

RateNext ==
    \/ \E tm \in RateTimes :
          /\ hist.rr_calls < MaxRateRequests
          /\ SeqRecordRequest("10.0.0.1", NoCountry, {tm},
                              [hist EXCEPT !.rr_calls = @ + 1,
                                           !.times = Append(@, tm)])
    \/ SeqReset(RateTimes)
    \/ \E m \in RateAccessors : RateAccessor(m)

RateSpec == Init /\ [][RateNext]_vars

\* ---------------------------------------------------------- status poller
\* Threads that record requests or reset while the handler of /api/stats
\* builds its payload.
PollNext ==
    \/ \E t \in Threads : \E m \in {"record_request", "reset", "handle_stats"} :
          \E a \in Args(m) : Call(t, m, a)
    \/ \E t \in Threads : Acquire(t)
    \/ \E t \in Threads :
          RecordRequestNow(t) \/ RecordRequestCounters(t) \/ RecordRequestRest(t)
    \/ \E t \in Threads : ResetCounters(t) \/ ResetTables(t) \/ ResetRest(t)
    \/ \E t \in Threads : UptimeNow(t) \/ AccessorBody(t) \/ CompositeEntry(t)

PollSpec == Init /\ [][PollNext]_vars

\* ------------------------------------------------------- readers of uptime
\* Threads that call get_uptime, which takes no lock, and reset.
UptimeNext ==
    \/ \E t \in Threads : \E m \in {"get_uptime", "reset"} : Call(t, m, NoArg)
    \/ \E t \in Threads : Acquire(t)
    \/ \E t \in Threads : ResetCounters(t) \/ ResetTables(t) \/ ResetRest(t)
    \/ \E t \in Threads : UptimeNow(t) \/ AccessorBody(t)

UptimeSpec == Init /\ [][UptimeNext]_vars

\* ---------------------------------------------------------------- fairness
\* A thread that can take its next step takes it, and a thread waiting for the
\* lock gets it if the lock is free again and again.  No thread has to call.
FairSpec ==
    /\ Spec
    /\ \A t \in Threads : WF_vars(Step(t)) /\ SF_vars(Acquire(t))

\* ------------------------------------------------------------------ claims
\* thread t runs get_summary (or an accessor get_summary called) and has
\* acquired the lock at line 172
InSummary(t) ==
    /\ pc[t] # "idle"
    /\ \/ meth[t] = "get_summary" /\ pc[t] = "entries"
       \/ comp[t] = "get_summary"

Returned(t, m) == pc[t] = "idle" /\ ret[t].m = m

\* C1: every call of get_summary (also through export_to_dict) returns: once
\* the thread has acquired the lock it completes the method, and then it no
\* longer holds the lock.
C1_SummaryReturns ==
    \A t \in Threads : InSummary(t) ~> (Returned(t, "get_summary") /\ lock # t)

Recording(t) ==
    /\ pc[t] # "idle"
    /\ meth[t] \in {"record_request", "record_packets_sent", "record_error"}

\* C2: a thread that calls record_request, record_packets_sent or record_error
\* completes the call, whatever the other threads have called.
C2_RecordingCompletes ==
    \A t \in Threads : Recording(t) ~> (pc[t] = "idle")

NoRequestInFlight == InFlight({"record_request"}) = 0

\* C3: no lost updates: without a reset, once all the record_request calls
\* the threads issued have completed, total_requests is their number.
C3_NoLostUpdates ==
    (hist.resets = 0 /\ NoRequestInFlight) => stats.total_requests = hist.rr_calls

\* two threads have each completed a record_request
C3_Witness ==
    /\ hist.resets = 0 /\ NoRequestInFlight
    /\ \A t \in Threads : Returned(t, "record_request")
    /\ stats.total_requests = 2

\* C4: without a reset, once all the record_request calls have completed,
\* get_unique_ip_count returns the number of distinct identities they had.
C4_UniqueCount ==
    (hist.resets = 0 /\ NoRequestInFlight)
        => get_unique_ip_count(stats) = Cardinality(hist.rr_ips)

\* three requests of two identities, one of them repeated, are complete
C4_Witness ==
    /\ hist.resets = 0 /\ NoRequestInFlight
    /\ hist.rr_calls = 3 /\ Cardinality(hist.rr_ips) = 2
    /\ get_unique_ip_count(stats) = 2

\* the values thread t, running _update_stats, has read so far
Polled(t, n) == Len(out[t]) >= n /\ out[t][1][1] = "card_requests"

\* the identities of the first n events total_requests counted
Counted(n) == {hist.applied[i] : i \in 1..n}

\* C5: a poller that reads total_requests and then get_unique_ip_count() never
\* sees total_requests count an event whose identity is missing from the
\* unique set it then sees: that set has at least the identities of the
\* events counted.
C5_RequestAtomicForReaders ==
    hist.resets = 0 =>
        \A t \in Threads :
            Polled(t, 2) => Cardinality(Counted(out[t][1][2])) <= out[t][2][2]

\* a poller has read total_requests = 1 and then a unique count of 1
C5_Witness ==
    /\ hist.resets = 0
    /\ \E t \in Threads :
          Polled(t, 2) /\ out[t][1][2] = 1 /\ out[t][2][2] = 1

\* C7: a poller never obtains values of which some are from before a reset and
\* others from after it.  (A total_requests of 0 read before the reset is
\* also its value after it.)
C7_ResetAtomicForReaders ==
    \A t \in Threads :
        Polled(t, 2) => (gens[t][1] = gens[t][2] \/ out[t][1][2] = 0)

AllIdle == \A t \in Threads : pc[t] = "idle"

\* the state of a fresh instance that has recorded one request
FreshPlusOne(s) ==
    /\ Len(hist.applied) = 1
    /\ \E country \in Countries :
          s = record_request(NewStatistics(s.start_time), hist.applied[1],
                             country, s.last_request_time)

\* C8: when a reset and one record_request are concurrent, and nothing else is
\* recorded, the state after both is the freshly reset state or that state
\* with the one request fully applied.
C8_ResetOrRequestFirst ==
    (/\ AllIdle
     /\ hist.resets >= 1 /\ hist.resets_done = hist.resets
     /\ hist.rr_after = 1 /\ hist.other_after = 0)
        => (stats = NewStatistics(stats.start_time) \/ FreshPlusOne(stats))

\* a request was in flight when reset was called, and was applied after the
\* reset: one request, one identity, one timestamp, a running bucket of 1
C8_Witness ==
    /\ AllIdle
    /\ hist.resets = 1 /\ hist.resets_done = 1
    /\ hist.rr_at_reset = 1 /\ hist.rr_after = 1 /\ hist.other_after = 0
    /\ stats.total_requests = 1
    /\ stats.unique_ips = {hist.applied[1]}
    /\ stats.ip_request_count = <<<<hist.applied[1], 1>>>>
    /\ Len(stats.request_timestamps) = 1
    /\ stats.current_second_count = 1

\* C9: after reset the aggregator is in the state of an instance constructed
\* at the time reset read: counters 0, tables and rings empty, no last request,
\* a running bucket of 0 in the current second, start_time the current time.
C9_ResetIsFresh ==
    ret[1].m = "reset" => stats = NewStatistics(clock)

\* a reset, at a later time than the construction, of an instance that had
\* recorded requests and an error or packets
C9_Witness ==
    /\ ret[1].m = "reset"
    /\ hist.rr_calls >= 1 /\ hist.calls >= 1
    /\ clock > 0
    /\ stats.total_requests = 0 /\ stats.unique_ips = {}
    /\ stats.start_time = clock

\* how often label l was recorded since the last reset, and when first
LabelCount(l) == Cardinality({i \in DOMAIN hist.labels : hist.labels[i] = l})

FirstRecorded(l) ==
    CHOOSE i \in DOMAIN hist.labels :
        hist.labels[i] = l /\ \A j \in 1..(i - 1) : hist.labels[j] # l

\* pair a of a ranking comes before pair b
RanksBefore(a, b) ==
    \/ a[2] > b[2]
    \/ a[2] = b[2] /\ FirstRecorded(a[1]) < FirstRecorded(b[1])

\* the labels recorded that are neither None nor empty
RankedLabels == {hist.labels[i] : i \in DOMAIN hist.labels} \ {NoCountry, ""}

\* C10: get_top_countries(limit) returns at most limit pairs of a label and
\* its count, the counts descending and labels of equal count in the order in
\* which they were first recorded, and they are the first of that ranking;
\* after US, US, DE, DE a limit of 2 gives [(US, 2), (DE, 2)].
C10_TopCountries ==
    ret[1].m = "get_top_countries" =>
        LET r == ret[1].v
            limit == ret[1].a.limit
        IN /\ Len(r) <= limit
           /\ Len(r) = limit \/ Len(r) = Cardinality(RankedLabels)
           /\ \A i \in DOMAIN r :
                 r[i][1] \in RankedLabels /\ r[i][2] = LabelCount(r[i][1])
           /\ \A i, j \in DOMAIN r : i < j => RanksBefore(r[i], r[j])
           /\ \A l \in RankedLabels :
                 (\A i \in DOMAIN r : r[i][1] # l) =>
                     \A i \in DOMAIN r : RanksBefore(r[i], <<l, LabelCount(l)>>)
           /\ (hist.labels = <<"US", "US", "DE", "DE">> /\ limit = 2)
                 => r = << <<"US", 2>>, <<"DE", 2>> >>

\* the example: US, US, DE, DE, then get_top_countries(2)
C10_Witness ==
    /\ ret[1].m = "get_top_countries"
    /\ hist.labels = <<"US", "US", "DE", "DE">>
    /\ ret[1].a.limit = 2
    /\ ret[1].v = << <<"US", 2>>, <<"DE", 2>> >>

\* the request at which label l reached the count n
FirstReached(l, n) ==
    CHOOSE i \in DOMAIN hist.labels :
        /\ hist.labels[i] = l
        /\ Cardinality({j \in 1..i : hist.labels[j] = l}) = n

\* C11 as stated: of two labels of equal count in the ranking of
\* get_top_countries, the one that reached that count first comes first.
C11_FirstToReachRanksHigher ==
    ret[1].m = "get_top_countries" =>
        LET r == ret[1].v
        IN \A i, j \in DOMAIN r :
              (i < j /\ r[i][2] = r[j][2])
                  => FirstReached(r[i][1], r[i][2]) < FirstReached(r[j][1], r[j][2])

\* C11, amended: of two labels of equal count in the ranking of
\* get_top_countries, the one recorded first (inserted first in the table)
\* comes first, whichever reached the count first; after US, DE, DE, US the
\* ranking is [(US, 2), (DE, 2)].
C11_FirstInsertedRanksHigher ==
    ret[1].m = "get_top_countries" =>
        LET r == ret[1].v
        IN /\ \A i, j \in DOMAIN r :
                 (i < j /\ r[i][2] = r[j][2])
                     => FirstRecorded(r[i][1]) < FirstRecorded(r[j][1])
           /\ (hist.labels = <<"US", "DE", "DE", "US">> /\ ret[1].a.limit = 2)
                 => r = << <<"US", 2>>, <<"DE", 2>> >>

\* US, DE, DE, US, then get_top_countries(2): DE reached 2 first, US is first
C11_Witness ==
    /\ ret[1].m = "get_top_countries"
    /\ hist.labels = <<"US", "DE", "DE", "US">>
    /\ ret[1].a.limit = 2
    /\ ret[1].v = << <<"US", 2>>, <<"DE", 2>> >>
    /\ FirstReached("DE", 2) < FirstReached("US", 2)

\* the clients of the requests since the last reset, and how many each made
AppliedIps == {hist.applied[i] : i \in DOMAIN hist.applied}

AppliedCount(ip) == Cardinality({i \in DOMAIN hist.applied : hist.applied[i] = ip})

\* C12: get_top_ips(limit) returns at most limit pairs of a client and the
\* number of its requests since the last reset, the counts descending, and of
\* two clients of equal count the one first seen earlier (ip_first_seen) is
\* never after the other; they are the first of that ranking.
C12_TopIps ==
    ret[1].m = "get_top_ips" =>
        LET r == ret[1].v
            limit == ret[1].a.limit
            first_seen(ip) == Value(stats.ip_first_seen, ip)
        IN /\ Len(r) <= limit
           /\ Len(r) = limit \/ Len(r) = Cardinality(AppliedIps)
           /\ \A i \in DOMAIN r :
                 r[i][1] \in AppliedIps /\ r[i][2] = AppliedCount(r[i][1])
           /\ \A i, j \in DOMAIN r : i < j =>
                 /\ r[i][1] # r[j][1]
                 /\ r[i][2] >= r[j][2]
                 /\ r[i][2] = r[j][2] => first_seen(r[i][1]) <= first_seen(r[j][1])
           /\ \A ip \in AppliedIps :
                 (\A i \in DOMAIN r : r[i][1] # ip) =>
                     \A i \in DOMAIN r :
                         \/ r[i][2] > AppliedCount(ip)
                         \/ /\ r[i][2] = AppliedCount(ip)
                            /\ first_seen(r[i][1]) <= first_seen(ip)

\* after a reset two clients have made one request each, at different times,
\* and get_top_ips(2) ranks the one seen earlier first
C12_Witness ==
    /\ ret[1].m = "get_top_ips" /\ ret[1].a.limit = 2
    /\ hist.resets = 1 /\ hist.rr_calls >= 3
    /\ Len(ret[1].v) = 2
    /\ ret[1].v[1][2] = ret[1].v[2][2]
    /\ Value(stats.ip_first_seen, ret[1].v[1][1]) < Value(stats.ip_first_seen, ret[1].v[2][1])

\* C13: the empty label is a category like any other: each
\* record_request(ip, "") adds one to the table entry of "", as a request with
\* any other label does to that label's entry, whereas a request without a
\* category (None) changes no entry and adds none.
C13_EmptyLabelTracked ==
    /\ \A l \in Countries \ {NoCountry} : Value(stats.country_counts, l) = LabelCount(l)
    /\ NoCountry \notin Keys(stats.country_counts)

\* C14: whenever no thread holds the lock, the unique-IP set, the keys of
\* ip_first_seen and the keys of ip_request_count are one and the same set,
\* each key once.
C14_IdentityTablesAgree ==
    lock = Free =>
        /\ Keys(stats.ip_first_seen) = stats.unique_ips
        /\ Keys(stats.ip_request_count) = stats.unique_ips
        /\ Len(stats.ip_first_seen) = Cardinality(stats.unique_ips)
        /\ Len(stats.ip_request_count) = Cardinality(stats.unique_ips)

\* two identities are recorded, one of them twice, and the lock is free
C14_Witness ==
    /\ lock = Free
    /\ stats.unique_ips = IPs
    /\ stats.total_requests = 3
    /\ Len(stats.ip_request_count) = 2

\* a step of reset
ResetStep == \E t \in Threads : ResetCounters(t) \/ ResetTables(t) \/ ResetRest(t)

\* C15: no step other than a step of reset makes total_requests,
\* total_packets_sent or total_errors smaller.
C15_CountersMonotone ==
    [][ (~ResetStep) =>
            /\ stats'.total_requests >= stats.total_requests
            /\ stats'.total_packets_sent >= stats.total_packets_sent
            /\ stats'.total_errors >= stats.total_errors ]_vars

\* without any reset, a request, packets and an error have been counted
C15_Witness ==
    /\ hist.resets = 0
    /\ stats.total_requests >= 1
    /\ stats.total_packets_sent >= 1
    /\ stats.total_errors >= 1

\* C16: every value get_uptime returns is >= 0 (the clock never goes back),
\* also when a reset runs while get_uptime is being evaluated.
C16_UptimeNonNegative ==
    \A t \in Threads : Returned(t, "get_uptime") => ret[t].v >= 0

\* C17: get_average_rps returns 0 when the uptime is <= 0, and otherwise the
\* quotient of total_requests and the uptime in seconds; its divisor is
\* never 0.
C17_AverageRps ==
    ret[1].m = "get_average_rps" =>
        LET v == ret[1].v
            uptime == clock - stats.start_time
        IN /\ v[2] # 0
           /\ IF uptime <= 0
              THEN v[1] = 0
              ELSE v[1] * uptime = stats.total_requests * TicksPerSecond * v[2]

\* get_average_rps is called with requests recorded and the clock still at
\* start_time, and returns 0
C17_Witness ==
    /\ ret[1].m = "get_average_rps"
    /\ clock = stats.start_time
    /\ stats.total_requests >= 1
    /\ ret[1].v = Zero

\* the number of timestamps of the ring within w seconds of the time t
WithinWindow(w, t) ==
    Cardinality({i \in DOMAIN stats.request_timestamps :
                    t - stats.request_timestamps[i] <= w * TicksPerSecond})

\* the windows a caller may ask for, in seconds
Windows == 1..(2 * RpsWindow)

\* C18: for every window of w seconds, the current rate is the number of
\* timestamps of the ring within w seconds of now, divided by w.
C18_CurrentRateOfWindow ==
    ret[1].m = "get_current_rps" =>
        \A w \in Windows : ret[1].v[1] * w = WithinWindow(w, clock) * ret[1].v[2]

\* the requests since the last reset end with three in one second T and one
\* in the second T + 2; a request before them is not in the second T
ThreeThenOne ==
    LET ts == hist.times
        n == Len(ts)
    IN /\ n >= 4
       /\ IntOf(ts[n - 3]) = IntOf(ts[n - 1]) /\ IntOf(ts[n - 2]) = IntOf(ts[n - 1])
       /\ IntOf(ts[n]) = IntOf(ts[n - 1]) + 2
       /\ n > 4 => IntOf(ts[n - 4]) # IntOf(ts[n - 1])

HasZero(r) == \E i \in DOMAIN r : r[i] = 0

\* C19 as stated: after 3 events in second T and 1 event in second T + 2,
\* get_request_rate_history returns a ring that ends in 3, 1 and has no 0.
C19_HistoryEndsThreeOne ==
    (ret[1].m = "get_request_rate_history" /\ ThreeThenOne) =>
        LET r == ret[1].v
        IN /\ Len(r) >= 2
           /\ r[Len(r) - 1] = 3 /\ r[Len(r)] = 1
           /\ ~HasZero(r)

\* C19, amended: after 3 events in second T and 1 event in second T + 2,
\* get_request_rate_history returns a ring that ends in 3 and has no 0; the 1
\* is the running bucket of T + 2, which is not in the ring.
C19_HistoryEndsThree ==
    (ret[1].m = "get_request_rate_history" /\ ThreeThenOne) =>
        LET r == ret[1].v
        IN /\ Len(r) >= 1
           /\ r[Len(r)] = 3
           /\ ~HasZero(r)
           /\ stats.current_second_count = 1
           /\ stats.current_second = IntOf(hist.times[Len(hist.times)])

\* the three events are in a second after that of the construction, and
\* get_request_rate_history is called after the event in T + 2
C19_Witness ==
    /\ ret[1].m = "get_request_rate_history" /\ ThreeThenOne
    /\ IntOf(hist.times[Len(hist.times) - 1]) > IntOf(stats.start_time)
    /\ ret[1].v[Len(ret[1].v)] = 3
    /\ stats.current_second_count = 1

\* the last n elements of q, or all of q
LastOf(q, n) == IF Len(q) <= n THEN q ELSE SubSeq(q, Len(q) - n + 1, Len(q))

\* the number of times at the head of ts that are in the second of ts[1]
HeadRun(ts) ==
    Cardinality({i \in DOMAIN ts : \A j \in 1..i : IntOf(ts[j]) = IntOf(ts[1])})

\* the sizes of the groups of consecutive times of ts that are in one second
RECURSIVE RunLengths(_)
RunLengths(ts) ==
    IF ts = <<>> THEN <<>>
    ELSE <<HeadRun(ts)>> \o RunLengths(SubSeq(ts, HeadRun(ts) + 1, Len(ts)))

\* the buckets that have ended: all the groups but the last
EndedBuckets ==
    LET r == RunLengths(hist.times)
    IN IF r = <<>> THEN <<>> ELSE SubSeq(r, 1, Len(r) - 1)

\* C20: the timestamp ring never has more than TimestampsMaxLen entries and
\* the bucket ring never more than RpsMaxLen; each holds the latest of what
\* was appended to it, in the order of arrival (a full ring loses its oldest
\* entry and no other).
C20_RingsBounded ==
    /\ Len(stats.request_timestamps) <= TimestampsMaxLen
    /\ Len(stats.requests_per_second) <= RpsMaxLen
    /\ stats.request_timestamps = LastOf(hist.times, TimestampsMaxLen)
    /\ stats.requests_per_second = LastOf(EndedBuckets, RpsMaxLen)

\* both rings are full and each has lost an entry
C20_Witness ==
    /\ Len(hist.times) > TimestampsMaxLen
    /\ Len(stats.request_timestamps) = TimestampsMaxLen
    /\ Len(EndedBuckets) > RpsMaxLen
    /\ Len(stats.requests_per_second) = RpsMaxLen

\* C21: record_request treats every identity, the empty string included, as
\* an ordinary key: each identity has a count equal to the number of its
\* requests since the last reset, and when that is not 0 it is in the unique
\* set and has a first-seen time; total_requests counts every request.
C21_EveryIdentityRecorded ==
    /\ stats.total_requests = Len(hist.applied)
    /\ \A ip \in Identities :
          /\ Value(stats.ip_request_count, ip) = AppliedCount(ip)
          /\ AppliedCount(ip) >= 1 =>
                /\ ip \in stats.unique_ips
                /\ ip \in Keys(stats.ip_first_seen)
                /\ Value(stats.ip_first_seen, ip) \in 0..clock

\* a request with the empty identity and one with an address are recorded
C21_Witness ==
    /\ hist.applied = <<"", "10.0.0.1">>
    /\ stats.unique_ips = {"", "10.0.0.1"}
    /\ stats.ip_request_count = << <<"", 1>>, <<"10.0.0.1", 1>> >>
    /\ stats.total_requests = 2

\* thread t is at a step, of a public method of Statistics, that reads or
\* writes the fields of the instance
AccessingState(t) ==
    \/ pc[t] \in {"rr_store", "rr_rest", "reset_tables", "reset_rest", "uptime_load"}
    \/ pc[t] = "body" /\ meth[t] \notin UptimeAccessors
    \/ pc[t] = "entries" /\ meth[t] = "get_summary"

\* C22: a thread that reads or writes the fields of the instance inside a
\* public method holds the lock.
C22_LockHeldThroughout ==
    \A t \in Threads : AccessingState(t) => lock = t

\* a step that is a call of record_request by the single caller
RequestStep == hist'.rr_calls = hist.rr_calls + 1

\* C23: a record_request at time now, with floor(now) the second of the
\* running bucket, adds 1 to the running count and leaves the history ring as
\* it is; otherwise the running count is appended to the ring if it is > 0
\* (the ring keeps its latest entries), the bucket second becomes floor(now)
\* and the running count 1.
C23_BucketRule ==
    [][ RequestStep =>
          IF IntOf(clock') = stats.current_second
          THEN /\ stats'.current_second_count = stats.current_second_count + 1
               /\ stats'.requests_per_second = stats.requests_per_second
               /\ stats'.current_second = stats.current_second
          ELSE /\ stats'.requests_per_second =
                     IF stats.current_second_count > 0
                     THEN LastOf(stats.requests_per_second
                                     \o <<stats.current_second_count>>, RpsMaxLen)
                     ELSE stats.requests_per_second
               /\ stats'.current_second = IntOf(clock')
               /\ stats'.current_second_count = 1 ]_vars

\* a bucket of two requests has ended and a request of a later second is the
\* running bucket, after a first request that came in a later second than that
\* of the construction
C23_Witness ==
    /\ hist.resets = 0
    /\ Len(hist.times) = 4
    /\ IntOf(hist.times[1]) > IntOf(stats.start_time)
    /\ stats.requests_per_second = <<1, 2>>
    /\ stats.current_second_count = 1

\* C24: every entry of the bucket-history ring is >= 1.
C24_NoZeroBucket ==
    \A i \in DOMAIN stats.requests_per_second : stats.requests_per_second[i] >= 1

\* after a reset the first request came in a later second than the one reset
\* read, and a bucket has ended since
C24_Witness ==
    /\ hist.resets = 1
    /\ Len(hist.times) >= 2
    /\ IntOf(hist.times[1]) > IntOf(stats.start_time)
    /\ Len(stats.requests_per_second) >= 1

\* C25: last_request_time, once set, is never made smaller by a step that is
\* not a step of reset, whatever the interleaving of the record_request calls.
C25_LastRequestTimeMonotone ==
    [][ (/\ ~ResetStep
         /\ stats.last_request_time # NoTime
         /\ stats'.last_request_time # NoTime)
            => stats'.last_request_time >= stats.last_request_time ]_vars

\* two threads have each completed a record_request, the second at a later
\* time than the first
C25_Witness ==
    /\ hist.resets = 0
    /\ \A t \in Threads : Returned(t, "record_request") /\ now[t] # NoTime
    /\ \E t, u \in Threads : now[t] < now[u] /\ stats.last_request_time = now[u]

\* C26: a call of a read accessor leaves every counter, table, set and ring
\* of the instance as it was.
C26_AccessorsDoNotMutate ==
    [][ (hist' = hist /\ ret'[1].m \in Accessors) => stats' = stats ]_vars

\* a ranking query has returned, of a state with requests and an error
\* recorded, and no table has an entry more than was recorded
C26_Witness ==
    /\ ret[1].m = "get_top_countries" /\ ret[1].a.limit = 2
    /\ ret[1].v = << <<"US", 2>> >>
    /\ stats.country_counts = << <<"US", 2>> >>
    /\ Len(stats.ip_request_count) = 2
    /\ stats.total_errors = 1

\* the instance without its packet and error counts
WithoutAux(s) ==
    [s EXCEPT !.total_packets_sent = 0, !.total_errors = 0, !.errors_by_type = <<>>]

\* C27: record_packets_sent(n) adds n to total_packets_sent and changes
\* nothing else; record_error(kind) adds 1 to total_errors and to the entry of
\* kind in the error table, and changes no other entry and nothing else.
C27_AuxiliaryFrame ==
    [][ /\ (ret'[1].m = "record_packets_sent" /\ hist'.calls = hist.calls + 1)
            => stats' = [stats EXCEPT !.total_packets_sent = @ + ret'[1].a.count]
        /\ (ret'[1].m = "record_error" /\ hist'.calls = hist.calls + 1)
            => LET kind == ret'[1].a.error_type
               IN /\ stats'.total_errors = stats.total_errors + 1
                  /\ stats'.total_packets_sent = stats.total_packets_sent
                  /\ WithoutAux(stats') = WithoutAux(stats)
                  /\ Keys(stats'.errors_by_type) = Keys(stats.errors_by_type) \cup {kind}
                  /\ Len(stats'.errors_by_type) = Cardinality(Keys(stats'.errors_by_type))
                  /\ \A k \in ErrorTypes :
                        Value(stats'.errors_by_type, k) =
                            Value(stats.errors_by_type, k) + (IF k = kind THEN 1 ELSE 0)
      ]_vars

\* with requests recorded, packets were sent and then an error was recorded
C27_Witness ==
    /\ ret[1].m = "record_error"
    /\ stats.total_errors = 1 /\ stats.total_packets_sent = 2
    /\ stats.total_requests = 1 /\ Len(stats.request_timestamps) = 1
    /\ stats.errors_by_type = << <<ret[1].a.error_type, 1>> >>

\* the sum of the values of a table
RECURSIVE SumValues(_)
SumValues(d) == IF d = <<>> THEN 0 ELSE d[1][2] + SumValues(Tail(d))

\* C28: whenever no thread holds the lock, total_requests is the sum of the
\* per-IP request counts, and the sum of the country counts is at most
\* total_requests.
C28_CountSums ==
    lock = Free =>
        /\ stats.total_requests = SumValues(stats.ip_request_count)
        /\ SumValues(stats.country_counts) <= stats.total_requests

\* after a reset one request is recorded, of the two that were made
C28_Witness ==
    /\ lock = Free
    /\ hist.resets_done = 1 /\ hist.rr_calls = 2
    /\ stats.total_requests = 1
    /\ Len(stats.ip_request_count) = 1
    /\ SumValues(stats.country_counts) = 1

\* the sum of the entries of a ring
RECURSIVE SumOf(_)
SumOf(q) == IF q = <<>> THEN 0 ELSE q[1] + SumOf(Tail(q))

\* C29: the entries of the bucket-history ring and the running bucket count
\* sum to at most total_requests, and to total_requests as long as the ring
\* has lost no entry since the construction or the last reset.
C29_BucketConservation ==
    lock = Free =>
        LET sum == SumOf(stats.requests_per_second) + stats.current_second_count
        IN /\ sum <= stats.total_requests
           /\ Len(EndedBuckets) <= RpsMaxLen => sum = stats.total_requests

\* the ring is full and has lost nothing, a further bucket is running; and the
\* count of the requests is that of the ring and the running bucket
C29_Witness ==
    /\ lock = Free
    /\ Len(EndedBuckets) = RpsMaxLen
    /\ Len(stats.requests_per_second) = RpsMaxLen
    /\ stats.current_second_count >= 1
    /\ stats.total_requests > RpsMaxLen
    /\ stats.total_requests = SumOf(stats.requests_per_second) + stats.current_second_count

\* C30: the payload of a status poller never reports more unique identities
\* (uniqueIPs) than requests (totalRequests).
C30_UniqueAtMostTotal ==
    \A t \in Threads :
        (Len(out[t]) >= 2 /\ out[t][1][1] = "totalRequests") =>
            out[t][2][1] = "uniqueIPs" /\ out[t][2][2] <= out[t][1][2]

====
